---------------------------- MODULE Spec2Model ----------------------------
(***************************************************************************)
(* Workspace dependency graph and change-impact engine of pymono:          *)
(*   scripts/affected.py        change-impact resolver                     *)
(*   scripts/check_deps.py      structural lint (cycles, layering)         *)
(*   scripts/detect_changes.py  older change detector (same helpers)       *)
(*                                                                         *)
(* A Python str is a sequence of one-character strings, so that split,     *)
(* strip and startswith are computed character by character.  A path is a  *)
(* sequence of parts (each a str), as pathlib compares and splits it.      *)
(***************************************************************************)
EXTENDS Integers, Sequences, FiniteSets, TLC

VARIABLES
    pc,               \* position of the running script
    dep, norm,        \* parse_dep_name: argument and returned value
    manifests,        \* the pyproject.toml files on disk: toml path -> [name, deps]
    members,          \* discover_members(): dict in insertion order, <<[name, path]>>
    filepath, owner,  \* file_to_package: argument and returned value
    force_all,        \* affected.py --all
    changed_files,    \* get_changed_files(): the paths git diff names
    directly_changed, \* main: packages owning a changed file
    reverse_deps,     \* build_reverse_deps(): name -> list of dependents
    result, queue,    \* expand_dependents: closure so far, work queue
    output,           \* build_output(): [all, packages]
    graph,            \* check_no_cycles: adjacency lists
    visited, in_stack, path, cycles,   \* check_no_cycles: DFS state
    frames, root,     \* check_no_cycles: call stack of dfs, index of the root loop
    errors            \* check_dependency_direction: returned violations

vars == << pc, dep, norm, manifests, members, filepath, owner, force_all,
           changed_files, directly_changed, reverse_deps, result, queue, output,
           graph, visited, in_stack, path, cycles, frames, root, errors >>

normVars   == << dep, norm >>
wsVars     == << manifests, members >>
ownerVars  == << filepath, owner >>
impactVars == << force_all, changed_files, directly_changed, reverse_deps,
                 result, queue, output >>
cycleVars  == << graph, visited, in_stack, path, cycles, frames, root >>
lintVars   == << errors >>

-----------------------------------------------------------------------------
(* Bounds of the explored inputs.                                          *)

\* longest dependency specifier given to parse_dep_name on its own
MaxLen == 4
\* dependency declarations in all manifests together (impact, layering)
MaxDecls == 3
\* dependency declarations in all manifests together (cycle scan)
MaxCycleDecls == 4
\* changed files of one git diff
MaxChanged == 2

-----------------------------------------------------------------------------
(* Python str and list primitives.                                         *)

\* Python's None
None == << "None" >>

\* bool(x) of a str-or-None value
Truthy(x) == x # None /\ x # << >>

\* characters str.strip() removes
Whitespace == { " ", "\t", "\n", "\r" }

Lower == << "a","b","c","d","e","f","g","h","i","j","k","l","m",
            "n","o","p","q","r","s","t","u","v","w","x","y","z" >>

\* ord(c) of the characters that occur in names and paths
CharCode(c) ==
    IF \E i \in 1..Len(Lower) : Lower[i] = c
    THEN 96 + (CHOOSE i \in 1..Len(Lower) : Lower[i] = c)
    ELSE CASE c = "\t" -> 9  [] c = "\n" -> 10 [] c = "\r" -> 13
           [] c = " " -> 32  [] c = "!" -> 33  [] c = "-" -> 45
           [] c = "." -> 46  [] c = "/" -> 47  [] c = ";" -> 59
           [] c = "<" -> 60  [] c = "=" -> 61  [] c = ">" -> 62
           [] c = "[" -> 91  [] c = "_" -> 95

\* s < t for two str (lexicographic by code point)
RECURSIVE StrLess(_, _)
StrLess(s, t) ==
    IF t = << >> THEN FALSE
    ELSE IF s = << >> THEN TRUE
    ELSE IF s[1] # t[1] THEN CharCode(s[1]) < CharCode(t[1])
    ELSE StrLess(Tail(s), Tail(t))

\* p < q for two paths: pathlib compares the tuples of parts
RECURSIVE PathLess(_, _)
PathLess(p, q) ==
    IF q = << >> THEN FALSE
    ELSE IF p = << >> THEN TRUE
    ELSE IF p[1] # q[1] THEN StrLess(p[1], q[1])
    ELSE PathLess(Tail(p), Tail(q))

\* s.startswith(p)
StartsWith(s, p) == Len(p) <= Len(s) /\ SubSeq(s, 1, Len(p)) = p

\* s.split(d)[0] for a one-character separator d
Split0(s, d) ==
    IF \E i \in 1..Len(s) : s[i] = d
    THEN SubSeq(s, 1, (CHOOSE i \in 1..Len(s) :
                          s[i] = d /\ \A j \in 1..(i - 1) : s[j] # d) - 1)
    ELSE s

\* s.strip()
Strip(s) ==
    IF \A i \in 1..Len(s) : s[i] \in Whitespace THEN << >>
    ELSE LET lo == CHOOSE i \in 1..Len(s) :
                      s[i] \notin Whitespace /\ \A j \in 1..(i - 1) : s[j] \in Whitespace
             hi == CHOOSE i \in 1..Len(s) :
                      s[i] \notin Whitespace /\ \A j \in (i + 1)..Len(s) : s[j] \in Whitespace
         IN  SubSeq(s, lo, hi)

\* the set of elements of a list
Range(s) == { s[i] : i \in 1..Len(s) }

\* all lists over S of at most n elements
SeqsUpTo(S, n) == UNION { [1..k -> S] : k \in 0..n }

-----------------------------------------------------------------------------
(* affected.py / check_deps.py / detect_changes.py: parse_dep_name         *)

\* parse_dep_name without the split on ';'
parse_dep_name_no_semicolon(d) ==
    Strip(Split0(Split0(Split0(Split0(Split0(d, "["), ">"), "<"), "="), "!"))

parse_dep_name(d) ==
    Strip(Split0(Split0(Split0(Split0(Split0(Split0(d, "["), ">"), "<"), "="), "!"), ";"))


-----------------------------------------------------------------------------
(* Paths.  ROOT is the workspace root; every path below is relative to it. *)

pyproject_toml == << "p","y","p","r","o","j","e","c","t",".","t","o","m","l" >>

\* path.parent
Parent(p) == SubSeq(p, 1, Len(p) - 1)

\* str(path) of a relative path: the parts joined by "/", "." when there are none
RECURSIVE PathStr(_)
PathStr(p) ==
    IF p = << >> THEN << "." >>
    ELSE IF Len(p) = 1 THEN p[1]
    ELSE p[1] \o << "/" >> \o PathStr(Tail(p))

\* sorted(S) of a set of paths
RECURSIVE SortedPaths(_)
SortedPaths(S) ==
    IF S = {} THEN << >>
    ELSE LET m == CHOOSE x \in S : \A y \in S : x = y \/ PathLess(x, y)
         IN  << m >> \o SortedPaths(S \ {m})

\* sorted(S) of a set of str
RECURSIVE SortedStrs(_)
SortedStrs(S) ==
    IF S = {} THEN << >>
    ELSE LET m == CHOOSE x \in S : \A y \in S : x = y \/ StrLess(x, y)
         IN  << m >> \o SortedStrs(S \ {m})

\* load_toml(path), read down to project.name and project.dependencies
load_toml(m, p) == m[p]

-----------------------------------------------------------------------------
(* discover_members (identical in the four scripts)                        *)

\* members[name] = toml_path on a dict kept in insertion order
DictSet(d, k, v) ==
    IF \E i \in 1..Len(d) : d[i].name = k
    THEN [ i \in 1..Len(d) |-> IF d[i].name = k THEN [name |-> k, path |-> v] ELSE d[i] ]
    ELSE Append(d, [name |-> k, path |-> v])

\* ROOT.rglob("*/pyproject.toml"): the manifests at least one directory down
rglob(m) == { p \in DOMAIN m : Len(p) >= 2 /\ p[Len(p)] = pyproject_toml }

RECURSIVE DiscoverLoop(_, _, _)
DiscoverLoop(m, paths, acc) ==
    IF paths = << >> THEN acc
    ELSE LET toml_path == Head(paths)
             name == load_toml(m, toml_path).name
         IN  IF Parent(toml_path) = << >>
             THEN DiscoverLoop(m, Tail(paths), acc)
             ELSE IF Truthy(name)
                  THEN DiscoverLoop(m, Tail(paths), DictSet(acc, name, toml_path))
                  ELSE DiscoverLoop(m, Tail(paths), acc)

discover_members(m) == DiscoverLoop(m, SortedPaths(rglob(m)), << >>)

\* set(members.keys())
Keys(mem) == { mem[i].name : i \in 1..Len(mem) }

\* members[name]
Lookup(mem, k) == mem[CHOOSE i \in 1..Len(mem) : mem[i].name = k].path

\* the (name, parse_dep_name(dep)) pairs in the order the nested loops
\* "for name, path in members.items(): for dep in dependencies" visit them
RECURSIVE DeclaredPairs(_, _)
DeclaredPairs(m, mem) ==
    IF mem = << >> THEN << >>
    ELSE LET name == Head(mem).name
             deps == load_toml(m, Head(mem).path).deps
         IN  [ i \in 1..Len(deps) |-> [name |-> name, base |-> parse_dep_name(deps[i])] ]
             \o DeclaredPairs(m, Tail(mem))

\* [f(x) for x in s]
NamesOf(s) == [ i \in 1..Len(s) |-> s[i].name ]

-----------------------------------------------------------------------------
(* affected.py                                                             *)

INFRA_PATTERNS ==
    << pyproject_toml,
       << ".","p","y","t","h","o","n","-","v","e","r","s","i","o","n" >>,
       << "u","v",".","l","o","c","k" >>,
       << "s","c","r","i","p","t","s","/" >>,
       << ".","g","i","t","h","u","b","/" >>,
       << "M","a","k","e","f","i","l","e" >>,
       << ".","p","r","e","-","c","o","m","m","i","t","-","c","o","n","f","i","g",
          ".","y","a","m","l" >> >>

\* build_reverse_deps without the test 'base in workspace_names'
build_reverse_deps_keep_external(m, mem) ==
    LET pairs == DeclaredPairs(m, mem)
    IN  [ b \in { pairs[i].base : i \in 1..Len(pairs) } |->
            NamesOf(SelectSeq(pairs, LAMBDA d : d.base = b)) ]

\* build_reverse_deps appending the wrong way round: reverse[name].append(base)
build_reverse_deps_forward(m, mem) ==
    LET workspace_names == Keys(mem)
        pairs == SelectSeq(DeclaredPairs(m, mem), LAMBDA d : d.base \in workspace_names)
    IN  [ n \in { pairs[i].name : i \in 1..Len(pairs) } |->
            [ i \in 1..Len(SelectSeq(pairs, LAMBDA d : d.name = n)) |->
                SelectSeq(pairs, LAMBDA d : d.name = n)[i].base ] ]

\* reverse: defaultdict(list); reverse[base].append(name) for workspace bases
build_reverse_deps(m, mem) ==
    LET workspace_names == Keys(mem)
        pairs == SelectSeq(DeclaredPairs(m, mem), LAMBDA d : d.base \in workspace_names)
    IN  [ b \in { pairs[i].base : i \in 1..Len(pairs) } |->
            NamesOf(SelectSeq(pairs, LAMBDA d : d.base = b)) ]

\* is_infra_file without the startswith test
is_infra_file_exact_only(f) ==
    \E i \in 1..Len(INFRA_PATTERNS) : f = INFRA_PATTERNS[i]

is_infra_file(f) ==
    \/ f = pyproject_toml
    \/ \E i \in 1..Len(INFRA_PATTERNS) :
          /\ INFRA_PATTERNS[i] # pyproject_toml
          /\ (f = INFRA_PATTERNS[i] \/ StartsWith(f, INFRA_PATTERNS[i]))

\* str(toml_path.parent.relative_to(ROOT))
pkg_dir(toml_path) == PathStr(Parent(toml_path))

\* the condition with a bare prefix test, the separator left out
DirMatches_no_separator(f, toml_path) ==
    StartsWith(f, pkg_dir(toml_path)) \/ f = pkg_dir(toml_path)

\* the condition of the if in file_to_package
DirMatches(f, toml_path) ==
    StartsWith(f, pkg_dir(toml_path) \o << "/" >>) \/ f = pkg_dir(toml_path)

\* the function returning the loop variable instead of None after the loop
RECURSIVE file_to_package_leaks_name(_, _)
file_to_package_leaks_name(f, mem) ==
    IF mem = << >> THEN None
    ELSE IF DirMatches(f, Head(mem).path) \/ Tail(mem) = << >> THEN Head(mem).name
    ELSE file_to_package_leaks_name(f, Tail(mem))

RECURSIVE file_to_package(_, _)
file_to_package(f, mem) ==
    IF mem = << >> THEN None
    ELSE IF DirMatches(f, Head(mem).path) THEN Head(mem).name
    ELSE file_to_package(f, Tail(mem))

\* reverse_deps.get(pkg, [])
GetDependents(rev, pkg) == IF pkg \in DOMAIN rev THEN rev[pkg] ELSE << >>

\* the loop with queue.append(dependent) left out
RECURSIVE ExpandLoop_no_enqueue(_, _, _)
ExpandLoop_no_enqueue(dependents, res, q) ==
    IF dependents = << >> THEN [result |-> res, queue |-> q]
    ELSE ExpandLoop_no_enqueue(Tail(dependents), res \cup {Head(dependents)}, q)

\* the loop with the test "dependent not in result" left out
RECURSIVE ExpandLoop_no_result_test(_, _, _)
ExpandLoop_no_result_test(dependents, res, q) ==
    IF dependents = << >> THEN [result |-> res, queue |-> q]
    ELSE ExpandLoop_no_result_test(Tail(dependents), res \cup { Head(dependents) },
                                   Append(q, Head(dependents)))

\* the for loop of expand_dependents over the dependents of one popped package
RECURSIVE ExpandLoop(_, _, _)
ExpandLoop(dependents, res, q) ==
    IF dependents = << >> THEN [result |-> res, queue |-> q]
    ELSE LET dependent == Head(dependents)
         IN  IF dependent \notin res
             THEN ExpandLoop(Tail(dependents), res \cup {dependent}, Append(q, dependent))
             ELSE ExpandLoop(Tail(dependents), res, q)

\* the orders list(changed) can come out in: set iteration order is not fixed
ListsOf(S) == { q \in [1..Cardinality(S) -> S] : Range(q) = S }

\* build_output, down to "all", "packages" and the lint/test paths
build_output(mem, affected, run_all) ==
    LET packages == SortedStrs(affected)
    IN  [ all |-> run_all,
          packages |-> packages,
          test_paths |-> [ i \in 1..Len(packages) |-> pkg_dir(Lookup(mem, packages[i])) ] ]


-----------------------------------------------------------------------------
(* The explored workspaces: packages a, b, c, any subset of them present,  *)
(* with a bounded number of dependency declarations between them.  A       *)
(* declaration naming an absent package is an external dependency.         *)

libs  == << "l","i","b","s" >>
apps  == << "a","p","p","s" >>
tools == << "t","o","o","l","s" >>
na == << "a" >>
nb == << "b" >>
nc == << "c" >>
Names == { na, nb, nc }

\* one way of writing a dependency on each package
Specifiers == { << "a" >>, << "b", ">", "=", "1" >>, << " ", "c", ";", "x" >> }

RootManifest == << pyproject_toml >>

TomlPath(dir) == Append(dir, pyproject_toml)

\* the dependencies list of package n, given all declarations <<n, specifier>>
DepsOf(decls, n) ==
    LET own == SelectSeq(decls, LAMBDA d : d[1] = n)
    IN  [ i \in 1..Len(own) |-> own[i][2] ]

\* the manifests of a workspace: the root one and one per present package
Workspace(layout, present, decls) ==
    [ p \in { RootManifest } \cup { TomlPath(layout[n]) : n \in present } |->
        IF p = RootManifest
        THEN [ name |-> << "r" >>, deps |-> << >> ]
        ELSE LET n == CHOOSE n \in present : TomlPath(layout[n]) = p
             IN  [ name |-> n, deps |-> DepsOf(decls, n) ] ]

\* manifests is one of the explored workspaces under one of the layouts
SomeWorkspace(layouts, maxDecls) ==
    \E layout \in layouts : \E present \in SUBSET Names :
        \E decls \in SeqsUpTo(present \X Specifiers, maxDecls) :
            manifests = Workspace(layout, present, decls)

\* values of the variables a script does not use
IdleNorm   == dep = << >> /\ norm = << >>
IdleOwner  == filepath = << >> /\ owner = None
IdleImpact ==
    /\ force_all = FALSE /\ changed_files = {} /\ directly_changed = {}
    /\ reverse_deps = << >> /\ result = {} /\ queue = << >> /\ output = << >>
IdleCycles ==
    /\ graph = << >> /\ visited = {} /\ in_stack = {} /\ path = << >>
    /\ cycles = << >> /\ frames = << >> /\ root = 0
IdleLint   == errors = << >>
IdleWs     == manifests = << >> /\ members = << >>

-----------------------------------------------------------------------------
(* parse_dep_name applied to every short specifier                         *)

Delimiters == { "[", ">", "<", "=", "!", ";" }
Alphabet == { "a", " " } \cup Delimiters

NormInit ==
    /\ pc = "start"
    /\ dep \in SeqsUpTo(Alphabet, MaxLen)
    /\ norm = << >>
    /\ IdleWs /\ IdleOwner /\ IdleImpact /\ IdleCycles /\ IdleLint

Normalize ==
    /\ pc = "start"
    /\ norm' = parse_dep_name(dep)
    /\ pc' = "done"
    /\ UNCHANGED << dep, wsVars, ownerVars, impactVars, cycleVars, lintVars >>

\* parse_dep_name called on the value it returned
NormalizeAgain ==
    /\ pc = "done"
    /\ dep' = norm
    /\ norm' = parse_dep_name(norm)
    /\ pc' = "again"
    /\ UNCHANGED << wsVars, ownerVars, impactVars, cycleVars, lintVars >>

NormNext == Normalize \/ NormalizeAgain

SpecNorm == NormInit /\ [][NormNext]_vars

-----------------------------------------------------------------------------
(* affected.py main                                                        *)

ImpactLayout == [ n \in Names |->
    IF n = na THEN << libs, na >> ELSE IF n = nb THEN << libs, nb >> ELSE << apps, nc >> ]

\* the paths a diff may name: one file in each package, a file no package
\* owns, a lockfile, a script, and a backup of the root manifest
ImpactFiles ==
    { PathStr(<< libs, na, << "f" >> >>),
      PathStr(<< libs, nb, << "f" >> >>),
      PathStr(<< apps, nc, << "f" >> >>),
      << "x" >>,
      INFRA_PATTERNS[3],
      INFRA_PATTERNS[4] \o << "x" >>,
      pyproject_toml \o << ".", "b", "a", "k" >> }

\* changed_files is kept as the set of the paths of the diff: main only tests
\* any(...) over it and adds the owners to a set
ImpactInit ==
    /\ pc = "start"
    /\ SomeWorkspace({ ImpactLayout }, MaxDecls)
    /\ force_all \in BOOLEAN
    \* with --all, main returns before it asks git for the changed files
    /\ changed_files \in IF force_all THEN { {} }
                         ELSE { S \in SUBSET ImpactFiles : Cardinality(S) <= MaxChanged }
    /\ members = << >> /\ directly_changed = {} /\ reverse_deps = << >>
    /\ result = {} /\ queue = << >> /\ output = << >>
    /\ IdleNorm /\ IdleOwner /\ IdleCycles /\ IdleLint

\* any(is_infra_file(f) for f in changed_files)
infra_changed(files) == \E f \in files : is_infra_file(f)

\* lines 190-194: the packages that own a changed file
DirectlyChanged(files, mem) ==
    { file_to_package(f, mem) : f \in { g \in files : Truthy(file_to_package(g, mem)) } }

\* main, --all: lines 175-180
MainForceAll ==
    /\ pc = "start" /\ force_all
    /\ members' = discover_members(manifests)
    /\ output' = build_output(members', Keys(members'), TRUE)
    /\ pc' = "done"
    /\ UNCHANGED << manifests, force_all, changed_files, directly_changed,
                    reverse_deps, result, queue,
                    normVars, ownerVars, cycleVars, lintVars >>

\* main, an infrastructure file changed: lines 175, 182-188
MainInfra ==
    /\ pc = "start" /\ ~force_all
    /\ infra_changed(changed_files)
    /\ members' = discover_members(manifests)
    /\ output' = build_output(members', Keys(members'), TRUE)
    /\ pc' = "done"
    /\ UNCHANGED << manifests, force_all, changed_files, directly_changed,
                    reverse_deps, result, queue,
                    normVars, ownerVars, cycleVars, lintVars >>

\* main, up to the call of expand_dependents and its first two lines:
\* lines 175, 182-197, 119-120
MainChanged ==
    /\ pc = "start" /\ ~force_all
    /\ ~infra_changed(changed_files)
    /\ members' = discover_members(manifests)
    /\ directly_changed' = DirectlyChanged(changed_files, members')
    /\ reverse_deps' = build_reverse_deps(manifests, members')
    /\ result' = directly_changed'
    /\ queue' \in ListsOf(directly_changed')
    /\ pc' = "expand"
    /\ UNCHANGED << manifests, force_all, changed_files, output,
                    normVars, ownerVars, cycleVars, lintVars >>

\* one turn of the while loop of expand_dependents: lines 121-126
ExpandStep ==
    /\ pc = "expand" /\ queue # << >>
    /\ LET pkg == queue[Len(queue)]
           r == ExpandLoop(GetDependents(reverse_deps, pkg), result,
                           SubSeq(queue, 1, Len(queue) - 1))
       IN  result' = r.result /\ queue' = r.queue
    /\ UNCHANGED << pc, manifests, members, force_all, changed_files,
                    directly_changed, reverse_deps, output,
                    normVars, ownerVars, cycleVars, lintVars >>

\* expand_dependents returns, main builds the output: lines 127, 198
ExpandReturn ==
    /\ pc = "expand" /\ queue = << >>
    /\ output' = build_output(members, result, FALSE)
    /\ pc' = "done"
    /\ UNCHANGED << manifests, members, force_all, changed_files,
                    directly_changed, reverse_deps, result, queue,
                    normVars, ownerVars, cycleVars, lintVars >>

ImpactNext == MainForceAll \/ MainInfra \/ MainChanged \/ ExpandStep \/ ExpandReturn

SpecImpact == ImpactInit /\ [][ImpactNext]_vars


-----------------------------------------------------------------------------
(* file_to_package on workspaces whose package directories may be nested   *)
(* or share a name prefix                                                  *)

ns  == << "s" >>
nab == << "a", "b" >>
np  == << "p" >>

\* libs/a, two packages nested in it (libs/a/b sorts before libs/a's manifest,
\* libs/a/s after it), and a sibling libs/ab sharing its name prefix
OwnerDirs == { << libs, na >>, << libs, na, nb >>, << libs, na, ns >>, << libs, nab >> }

\* a package is named after its directory, or "p" (names may collide)
OwnerNames(dir) == { dir[Len(dir)], np }

OwnerWorkspaces ==
    UNION { { [ p \in { RootManifest } \cup { TomlPath(d) : d \in present } |->
                IF p = RootManifest THEN [ name |-> << "r" >>, deps |-> << >> ]
                ELSE [ name |-> naming[Parent(p)], deps |-> << >> ] ] :
              naming \in { f \in [present -> { na, nb, ns, nab, np }] :
                             \A d \in present : f[d] \in OwnerNames(d) } } :
            present \in SUBSET OwnerDirs }

OwnerFiles ==
    { PathStr(<< libs, na >>),
      PathStr(<< libs, na, << "f" >> >>),
      PathStr(<< libs, na, nb, << "f" >> >>),
      PathStr(<< libs, na, ns, << "f" >> >>),
      PathStr(<< libs, nab, << "f" >> >>),
      PathStr(<< libs, << "a", "b", "f" >> >>),
      << "x" >> }

OwnerInit ==
    /\ pc = "start"
    /\ manifests \in OwnerWorkspaces
    /\ filepath \in OwnerFiles
    /\ members = << >> /\ owner = None
    /\ IdleNorm /\ IdleImpact /\ IdleCycles /\ IdleLint

\* discover_members() and then file_to_package(filepath, members)
ResolveOwner ==
    /\ pc = "start"
    /\ members' = discover_members(manifests)
    /\ owner' = file_to_package(filepath, members')
    /\ pc' = "done"
    /\ UNCHANGED << manifests, filepath, normVars, impactVars, cycleVars, lintVars >>

\* the rest of the turn of main's for loop for this file: lines 193-194,
\* if pkg: directly_changed.add(pkg)
CollectOwner ==
    /\ pc = "done"
    /\ directly_changed' = IF Truthy(owner) THEN directly_changed \cup { owner }
                                             ELSE directly_changed
    /\ pc' = "collected"
    /\ UNCHANGED << wsVars, ownerVars, force_all, changed_files, reverse_deps,
                    result, queue, output, normVars, cycleVars, lintVars >>

OwnerNext == ResolveOwner \/ CollectOwner

SpecOwner == OwnerInit /\ [][OwnerNext]_vars

-----------------------------------------------------------------------------
(* check_deps.py: check_no_cycles, one dfs call or return per step         *)

\* lines 101-107: graph[name].append(base) for the workspace bases
build_graph(m, mem) ==
    LET workspace_names == Keys(mem)
        pairs == SelectSeq(DeclaredPairs(m, mem), LAMBDA d : d.base \in workspace_names)
    IN  [ n \in { pairs[i].name : i \in 1..Len(pairs) } |->
            [ i \in 1..Len(SelectSeq(pairs, LAMBDA d : d.name = n)) |->
                SelectSeq(pairs, LAMBDA d : d.name = n)[i].base ] ]

\* graph.get(node, [])
Neighbors(g, node) == IF node \in DOMAIN g THEN g[node] ELSE << >>

\* path.index(node)
Index(p, node) == CHOOSE i \in 1..Len(p) : p[i] = node /\ \A j \in 1..(i - 1) : p[j] # node

\* the chain without cycle_start: the whole path and the node
CycleChain_whole_path(p, node) == Append(p, node)

\* [*path[cycle_start:], node], the chain the report joins with arrows
CycleChain(p, node) == Append(SubSeq(p, Index(p, node), Len(p)), node)

\* in_stack.remove(node)
InStackAfterReturn(stack, node) == stack \ { node }

\* dfs without visited.add(node)
VisitedAfterEnter_forget(seen, node) == seen

\* visited.add(node)
VisitedAfterEnter(seen, node) == seen \cup { node }

CycleInit ==
    /\ pc = "start"
    /\ SomeWorkspace({ ImpactLayout }, MaxCycleDecls)
    /\ members = << >>
    /\ IdleCycles /\ IdleNorm /\ IdleOwner /\ IdleImpact /\ IdleLint

\* lines 101-112
CyclesStart ==
    /\ pc = "start"
    /\ members' = discover_members(manifests)
    /\ graph' = build_graph(manifests, members')
    /\ visited' = {} /\ in_stack' = {} /\ cycles' = << >>
    /\ path' = << >> /\ frames' = << >>
    /\ root' = 1
    /\ pc' = "roots"
    /\ UNCHANGED << manifests, normVars, ownerVars, impactVars, lintVars >>

\* lines 130-131: a member the scan has already visited
RootSkip ==
    /\ pc = "roots" /\ root <= Len(members)
    /\ members[root].name \in visited
    /\ root' = root + 1
    /\ UNCHANGED << pc, wsVars, graph, visited, in_stack, path, cycles, frames,
                    normVars, ownerVars, impactVars, lintVars >>

\* lines 130-132 and 115-124: dfs(name, []) on a member not visited yet
RootCall ==
    /\ pc = "roots" /\ root <= Len(members)
    /\ members[root].name \notin visited
    /\ members[root].name \notin in_stack
    /\ visited' = VisitedAfterEnter(visited, members[root].name)
    /\ in_stack' = in_stack \cup { members[root].name }
    /\ path' = << members[root].name >>
    /\ frames' = << [node |-> members[root].name, i |-> 1] >>
    /\ root' = root + 1
    /\ pc' = "dfs"
    /\ UNCHANGED << wsVars, graph, cycles, normVars, ownerVars, impactVars, lintVars >>

Top == frames[Len(frames)]

\* the frame of the caller moves on to its next neighbor
Advance(fs) == [ fs EXCEPT ![Len(fs)].i = @ + 1 ]

\* lines 125-126, 115-119: dfs(neighbor) finds the neighbor on the stack
DfsCycle ==
    /\ pc = "dfs" /\ frames # << >>
    /\ Top.i <= Len(Neighbors(graph, Top.node))
    /\ LET neighbor == Neighbors(graph, Top.node)[Top.i]
       IN  /\ neighbor \in in_stack
           /\ cycles' = Append(cycles, CycleChain(path, neighbor))
    /\ frames' = Advance(frames)
    /\ UNCHANGED << pc, wsVars, graph, visited, in_stack, path, root,
                    normVars, ownerVars, impactVars, lintVars >>

\* lines 125-126, 120-121: dfs(neighbor) finds the neighbor visited
DfsSeen ==
    /\ pc = "dfs" /\ frames # << >>
    /\ Top.i <= Len(Neighbors(graph, Top.node))
    /\ LET neighbor == Neighbors(graph, Top.node)[Top.i]
       IN  neighbor \notin in_stack /\ neighbor \in visited
    /\ frames' = Advance(frames)
    /\ UNCHANGED << pc, wsVars, graph, visited, in_stack, path, cycles, root,
                    normVars, ownerVars, impactVars, lintVars >>

\* lines 125-126, 122-124: dfs(neighbor) enters a new node
DfsDescend ==
    /\ pc = "dfs" /\ frames # << >>
    /\ Top.i <= Len(Neighbors(graph, Top.node))
    /\ LET neighbor == Neighbors(graph, Top.node)[Top.i]
       IN  /\ neighbor \notin in_stack /\ neighbor \notin visited
           /\ visited' = VisitedAfterEnter(visited, neighbor)
           /\ in_stack' = in_stack \cup { neighbor }
           /\ path' = Append(path, neighbor)
           /\ frames' = Append(Advance(frames), [node |-> neighbor, i |-> 1])
    /\ UNCHANGED << pc, wsVars, graph, cycles, root,
                    normVars, ownerVars, impactVars, lintVars >>

\* lines 127-128: the neighbors are done, dfs(node) returns
DfsReturn ==
    /\ pc = "dfs" /\ frames # << >>
    /\ Top.i > Len(Neighbors(graph, Top.node))
    /\ path' = SubSeq(path, 1, Len(path) - 1)
    /\ in_stack' = InStackAfterReturn(in_stack, Top.node)
    /\ frames' = SubSeq(frames, 1, Len(frames) - 1)
    /\ pc' = IF Len(frames) = 1 THEN "roots" ELSE "dfs"
    /\ UNCHANGED << wsVars, graph, visited, cycles, root,
                    normVars, ownerVars, impactVars, lintVars >>

\* line 134
CyclesReturn ==
    /\ pc = "roots" /\ root > Len(members)
    /\ pc' = "done"
    /\ UNCHANGED << wsVars, cycleVars, normVars, ownerVars, impactVars, lintVars >>

CycleNext ==
    CyclesStart \/ RootSkip \/ RootCall \/ DfsCycle \/ DfsSeen \/ DfsDescend
        \/ DfsReturn \/ CyclesReturn

SpecCycles == CycleInit /\ [][CycleNext]_vars

-----------------------------------------------------------------------------
(* The two loops over the workspace graph, on the same workspaces: the     *)
(* work queue of expand_dependents as main calls it, and the traversal of  *)
(* check_no_cycles.  Either script is run on the workspace.                *)

\* one file in each package directory
PackageFiles == { PathStr(Append(ImpactLayout[n], << "f" >>)) : n \in Names }

LoopsInit ==
    /\ pc = "start"
    /\ SomeWorkspace({ ImpactLayout }, MaxCycleDecls)
    /\ force_all = FALSE
    /\ changed_files \in { S \in SUBSET PackageFiles : Cardinality(S) <= MaxChanged }
    /\ members = << >> /\ directly_changed = {} /\ reverse_deps = << >>
    /\ result = {} /\ queue = << >> /\ output = << >>
    /\ IdleCycles /\ IdleNorm /\ IdleOwner /\ IdleLint

LoopsNext == MainChanged \/ ExpandStep \/ ExpandReturn \/ CycleNext

SpecLoops == LoopsInit /\ [][LoopsNext]_vars

-----------------------------------------------------------------------------
(* check_deps.py: check_dependency_direction                               *)

\* classify_member: "app", "lib" or None by the top-level folder
classify_member(toml_path) ==
    IF toml_path[1] = apps THEN "app"
    ELSE IF toml_path[1] = libs THEN "lib"
    ELSE "None"

\* lines 151-159
KindNames(mem, kind) ==
    { mem[i].name : i \in { j \in 1..Len(mem) : classify_member(mem[j].path) = kind } }

\* the check reporting a pair of packages once however often it is declared
DeclErrors_dedup(acc, kind, name, base, app_names) ==
    IF base \in app_names /\ kind \in { "app", "lib" }
       /\ ~(\E i \in 1..Len(acc) : acc[i].name = name /\ acc[i].base = base)
    THEN << [kind |-> kind, name |-> name, base |-> base] >>
    ELSE << >>

\* lines 168-173: the violations one declaration adds; a violation is kept as
\* the values its message is formatted from
DeclErrors(acc, kind, name, base, app_names) ==
    (IF kind = "app" /\ base \in app_names
     THEN << [kind |-> "app", name |-> name, base |-> base] >> ELSE << >>)
    \o
    (IF kind = "lib" /\ base \in app_names
     THEN << [kind |-> "lib", name |-> name, base |-> base] >> ELSE << >>)

\* lines 161-173 over the declarations in loop order
RECURSIVE DirectionLoop(_, _, _, _)
DirectionLoop(pairs, mem, app_names, acc) ==
    IF pairs = << >> THEN acc
    ELSE LET name == Head(pairs).name
             base == Head(pairs).base
             kind == classify_member(Lookup(mem, name))
         IN  IF base \notin Keys(mem)
             THEN DirectionLoop(Tail(pairs), mem, app_names, acc)
             ELSE DirectionLoop(Tail(pairs), mem, app_names,
                                acc \o DeclErrors(acc, kind, name, base, app_names))

check_dependency_direction(m, mem) ==
    DirectionLoop(DeclaredPairs(m, mem), mem, KindNames(mem, "app"), << >>)

\* every package in apps/, libs/ or tools/
LintLayouts ==
    { [ n \in Names |-> << top[n], n >> ] : top \in [Names -> { apps, libs, tools }] }

LintInit ==
    /\ pc = "start"
    /\ SomeWorkspace(LintLayouts, MaxDecls)
    /\ members = << >> /\ errors = << >>
    /\ IdleNorm /\ IdleOwner /\ IdleImpact /\ IdleCycles

\* main: discover_members() and check_dependency_direction(members, names)
CheckDirection ==
    /\ pc = "start"
    /\ members' = discover_members(manifests)
    /\ errors' = check_dependency_direction(manifests, members')
    /\ pc' = "done"
    /\ UNCHANGED << manifests, normVars, ownerVars, impactVars, cycleVars >>

LintNext == CheckDirection

SpecLayering == LintInit /\ [][LintNext]_vars

-----------------------------------------------------------------------------
(* Vocabulary of the properties, read off the manifests on disk.           *)

\* the manifests of workspace members
MemberManifests == { p \in DOMAIN manifests : Len(p) >= 2 }

\* the names of the discovered packages
Discovered == { manifests[p].name : p \in MemberManifests }

\* package q declares a workspace-internal dependency on package p
Declares(q, p) ==
    /\ p \in Discovered
    /\ \E t \in MemberManifests :
          /\ manifests[t].name = q
          /\ \E i \in 1..Len(manifests[t].deps) : parse_dep_name(manifests[t].deps[i]) = p

\* some package of D is reachable from q along zero or more depends-on edges
Reaches(q, D) ==
    \E chain \in SeqsUpTo(Discovered, Cardinality(Discovered)) :
        /\ chain # << >>
        /\ chain[1] = q
        /\ chain[Len(chain)] \in D
        /\ \A i \in 1..(Len(chain) - 1) : Declares(chain[i], chain[i + 1])

\* a package directory owns the file
Owned(f) ==
    \E t \in MemberManifests :
        f = PathStr(Parent(t)) \/ StartsWith(f, PathStr(Parent(t)) \o << "/" >>)

\* the file equals a pattern or starts with one
MatchesAnyPattern(f) ==
    \E i \in 1..Len(INFRA_PATTERNS) :
        f = INFRA_PATTERNS[i] \/ StartsWith(f, INFRA_PATTERNS[i])

\* the file equals a pattern, or starts with one other than pyproject.toml
MatchesInfra(f) ==
    \E i \in 1..Len(INFRA_PATTERNS) :
        \/ f = INFRA_PATTERNS[i]
        \/ INFRA_PATTERNS[i] # pyproject_toml /\ StartsWith(f, INFRA_PATTERNS[i])

\* the packages of the printed result
Affected == Range(output.packages)

ImpactDone == pc = "done" /\ output # << >>

-----------------------------------------------------------------------------
(* C1..C4, C9: affected.py                                                 *)

\* C1: when no changed file is an infrastructure file (and --all is off), the
\* affected set contains every directly-changed package and is closed under
\* dependents: if P is affected and Q declares a workspace dependency on P,
\* then Q is affected.
C1_SupersetAndClosed ==
    (ImpactDone /\ ~force_all /\ ~(\E f \in changed_files : MatchesInfra(f))) =>
        /\ directly_changed \subseteq Affected
        /\ \A p \in Affected : \A q \in Discovered : Declares(q, p) => q \in Affected

\* a dependent of a dependent of the changed package was pulled in
C1_Witness ==
    /\ ImpactDone /\ ~output.all
    /\ directly_changed = { nc }
    /\ Declares(nb, nc) /\ Declares(na, nb) /\ ~Declares(na, nc)
    /\ na \in Affected

\* C2: the affected set is exactly the set of packages from which a
\* directly-changed package is reachable along depends-on edges, whatever order
\* the work queue starts in; with a -> b -> c and a changed file under c's
\* directory it is {a, b, c}.
C2_ExactlyReachable ==
    (ImpactDone /\ ~output.all) =>
        /\ Affected = { q \in Discovered : Reaches(q, directly_changed) }
        /\ ( /\ \A q \in Names : \A p \in Names :
                  Declares(q, p) <=> (<< q, p >> \in { << na, nb >>, << nb, nc >> })
             /\ changed_files = { PathStr(<< apps, nc, << "f" >> >>) } )
           => output.packages = << na, nb, nc >>

\* the chain a -> b -> c with a file of c changed: all three are printed
C2_Witness ==
    /\ ImpactDone /\ ~output.all
    /\ \A q \in Names : \A p \in Names :
          Declares(q, p) <=> (<< q, p >> \in { << na, nb >>, << nb, nc >> })
    /\ changed_files = { PathStr(<< apps, nc, << "f" >> >>) }
    /\ output.packages = << na, nb, nc >>

\* C3 as stated: a changed file that equals or starts with any pattern makes
\* the run a run-all over every discovered package.
C3_AsStated ==
    (ImpactDone /\ \E f \in changed_files : MatchesAnyPattern(f)) =>
        output.all /\ Affected = Discovered

\* C3 (amended): a changed file that equals a pattern, or starts with a pattern
\* other than pyproject.toml, makes the result run_all = true with every
\* discovered package affected, whatever the edges and the other changed files.
C3_InfraRunsAll ==
    (ImpactDone /\ \E f \in changed_files : MatchesInfra(f)) =>
        output.all /\ Affected = Discovered

\* a lockfile changed beside a file of package a, on which nothing depends
C3_Witness ==
    /\ ImpactDone
    /\ INFRA_PATTERNS[3] \in changed_files
    /\ PathStr(<< libs, na, << "f" >> >>) \in changed_files
    /\ Discovered = Names
    /\ \A q \in Names : ~Declares(q, na)
    /\ output.all /\ Affected = Names

\* C4 as stated: with --all off the affected set is empty iff the changed-file
\* set is empty and no infrastructure pattern matched.
C4_AsStated ==
    (ImpactDone /\ ~force_all) =>
        (Affected = {} <=>
            (changed_files = {} /\ ~(\E f \in changed_files : MatchesInfra(f))))

\* C4 (amended): with --all off the affected set is empty iff either no changed
\* file is an infrastructure file and none is owned by a package, or one is an
\* infrastructure file and the workspace has no package.
C4_EmptyIff ==
    (ImpactDone /\ ~force_all) =>
        (Affected = {} <=>
            \/ /\ ~(\E f \in changed_files : MatchesInfra(f))
               /\ ~(\E f \in changed_files : Owned(f))
            \/ /\ \E f \in changed_files : MatchesInfra(f)
               /\ Discovered = {})

\* a diff naming only a file no package owns, in a workspace with packages
C4_Witness ==
    /\ ImpactDone /\ ~force_all
    /\ changed_files = { << "x" >> }
    /\ Discovered = Names
    /\ Affected = {}


\* the entries of the reverse index exist from the call of build_reverse_deps on
ReverseBuilt == pc = "expand" \/ (ImpactDone /\ ~output.all)

\* C9: the reverse index is the exact inverse of the forward edges: A is listed
\* among the dependents of B iff a declared dependency of A normalizes to B and
\* B is a discovered package; a dependency that normalizes to a name outside
\* the workspace leaves no key and no dependent in the index.
C9_ReverseIsInverse ==
    ReverseBuilt =>
        /\ \A b \in Names \cup DOMAIN reverse_deps : \A a \in Names :
              (b \in DOMAIN reverse_deps /\ a \in Range(reverse_deps[b]))
                  <=> (a \in Discovered /\ Declares(a, b))
        /\ DOMAIN reverse_deps \subseteq Discovered
        /\ \A b \in DOMAIN reverse_deps : Range(reverse_deps[b]) \subseteq Discovered

\* package a depends on b and on the absent (external) c; b has one dependent
C9_Witness ==
    /\ ReverseBuilt
    /\ Discovered = { na, nb }
    /\ \E t \in MemberManifests :
          /\ manifests[t].name = na
          /\ \E i \in 1..Len(manifests[t].deps) : parse_dep_name(manifests[t].deps[i]) = nc
    /\ DOMAIN reverse_deps = { nb }
    /\ reverse_deps[nb] = << na >>

-----------------------------------------------------------------------------
(* C5: file_to_package                                                     *)

\* C5 as stated: when several package directories contain the file, the file
\* is attributed to the package with the longest of them.
C5_LongestMatch ==
    (pc = "done" /\ owner # None) =>
        \A i \in 1..Len(members) :
            DirMatches(filepath, members[i].path) =>
                Len(pkg_dir(members[i].path)) <= Len(pkg_dir(Lookup(members, owner)))


-----------------------------------------------------------------------------
(* C6: check_no_cycles                                                     *)

\* the manifest of the discovered package n
ManifestOf(n) == CHOOSE t \in MemberManifests : manifests[t].name = n

\* how many dependency entries of q normalize to p
DeclCount(q, p) ==
    Cardinality({ i \in 1..Len(manifests[ManifestOf(q)].deps) :
                    parse_dep_name(manifests[ManifestOf(q)].deps[i]) = p })

\* some package reaches itself along one or more depends-on edges
HasCycle ==
    \E q \in Discovered : \E p \in Discovered : Declares(q, p) /\ Reaches(p, { q })

\* the forward edges are exactly x -> y, y -> z, z -> x
EdgesExactly(x, y, z) ==
    /\ Discovered = { x, y, z }
    /\ \A q \in Discovered : \A p \in Discovered :
          Declares(q, p) <=> (<< q, p >> \in { << x, y >>, << y, z >>, << z, x >> })

Triples == { t \in Names \X Names \X Names : Cardinality({ t[1], t[2], t[3] }) = 3 }

\* C6 as stated: no report on an acyclic workspace, and exactly one report,
\* whose chain holds all three names, when the edges are exactly A -> B,
\* B -> C, C -> A.
C6_AsStated ==
    (pc = "done") =>
        /\ ~HasCycle => cycles = << >>
        /\ \A t \in Triples : EdgesExactly(t[1], t[2], t[3]) =>
              Len(cycles) = 1 /\ Range(cycles[1]) = { t[1], t[2], t[3] }

\* C6 (amended): no report on an acyclic workspace, and exactly one report,
\* whose chain holds all three names, when the edges are exactly A -> B,
\* B -> C, C -> A and each of the three dependencies is declared once.
C6_CycleReports ==
    (pc = "done") =>
        /\ ~HasCycle => cycles = << >>
        /\ \A t \in Triples :
              ( /\ EdgesExactly(t[1], t[2], t[3])
                /\ DeclCount(t[1], t[2]) = 1
                /\ DeclCount(t[2], t[3]) = 1
                /\ DeclCount(t[3], t[1]) = 1 )
              => Len(cycles) = 1 /\ Range(cycles[1]) = { t[1], t[2], t[3] }

\* the scan of a -> b -> c -> a, each declared once, has returned one report
C6_Witness ==
    /\ pc = "done"
    /\ EdgesExactly(na, nb, nc)
    /\ DeclCount(na, nb) = 1 /\ DeclCount(nb, nc) = 1 /\ DeclCount(nc, na) = 1
    /\ Len(cycles) = 1
    /\ Range(cycles[1]) = Names

-----------------------------------------------------------------------------
(* C7, C8: check_dependency_direction                                      *)

IsApp(n) == ManifestOf(n)[1] = apps
IsLib(n) == ManifestOf(n)[1] = libs

\* how many returned violations name package a as the dependent and b as the
\* dependency
Violations(a, b) ==
    Cardinality({ i \in 1..Len(errors) : errors[i].name = a /\ errors[i].base = b })

\* C7 as stated: an App that declares a dependency on another App yields
\* exactly one violation naming both; with no such declaration, none.
C7_AsStated ==
    (pc = "done") =>
        \A a \in Discovered : \A b \in Discovered \ { a } :
            (IsApp(a) /\ IsApp(b)) =>
                /\ Declares(a, b) => Violations(a, b) = 1
                /\ ~Declares(a, b) => Violations(a, b) = 0

\* C7 (amended): every dependency entry of an App that normalizes to another
\* App yields exactly one violation naming both packages, so the violations
\* naming the pair are as many as those entries: one when the dependency is
\* declared once, none when it is not declared.
C7_OnePerDeclaration ==
    (pc = "done") =>
        \A a \in Discovered : \A b \in Discovered \ { a } :
            (IsApp(a) /\ IsApp(b)) =>
                /\ Violations(a, b) = DeclCount(a, b)
                /\ \A i \in 1..Len(errors) :
                      (errors[i].name = a /\ errors[i].base = b) => errors[i].kind = "app"

\* app a declares app b once and gets one violation; app b does not declare a
C7_Witness ==
    /\ pc = "done"
    /\ { na, nb } \subseteq Discovered
    /\ IsApp(na) /\ IsApp(nb)
    /\ DeclCount(na, nb) = 1 /\ Violations(na, nb) = 1
    /\ DeclCount(nb, na) = 0 /\ Violations(nb, na) = 0

\* C8 as stated: when no violation is returned, every workspace dependency of
\* an App targets a Lib, and no Lib depends on an App.
C8_AsStated ==
    (pc = "done" /\ errors = << >>) =>
        /\ \A a \in Discovered : \A b \in Discovered :
              (IsApp(a) /\ Declares(a, b)) => IsLib(b)
        /\ \A l \in Discovered : \A a \in Discovered :
              (IsLib(l) /\ IsApp(a)) => ~Declares(l, a)

-----------------------------------------------------------------------------
(* C10: parse_dep_name                                                     *)

\* the part of s before its earliest delimiter, s itself when it has none
BeforeFirstDelimiter(s) ==
    LET at == { i \in 1..Len(s) : s[i] \in Delimiters }
    IN  IF at = {} THEN s
        ELSE SubSeq(s, 1, (CHOOSE i \in at : \A j \in at : i <= j) - 1)

\* t is s without its leading and trailing whitespace
IsTrimOf(t, s) ==
    /\ \E lo \in 1..(Len(s) + 1) : \E hi \in 0..Len(s) :
          /\ t = SubSeq(s, lo, hi)
          /\ \A i \in 1..(lo - 1) : s[i] \in Whitespace
          /\ \A i \in (hi + 1)..Len(s) : s[i] \in Whitespace
    /\ t # << >> => (t[1] \notin Whitespace /\ t[Len(t)] \notin Whitespace)

\* C10: the returned name holds no delimiter character, is the trimmed part of
\* the specifier before its earliest delimiter, and a second call returns it
\* unchanged.
C10_Normalizer ==
    /\ (pc = "done") =>
          /\ \A i \in 1..Len(norm) : norm[i] \notin Delimiters
          /\ IsTrimOf(norm, BeforeFirstDelimiter(dep))
    /\ (pc = "again") => norm = dep

\* " a;=" is cut at ';', its earliest delimiter and the last one split on, and
\* trimmed to "a"
C10_Witness ==
    /\ pc = "done"
    /\ dep = << " ", "a", ";", "=" >>
    /\ norm = << "a" >>


-----------------------------------------------------------------------------
(* C11: file_to_package, ownership by directory                            *)

\* string f is string d, or d followed by "/" and anything
IsAtOrUnder(f, d) ==
    \/ f = d
    \/ /\ Len(f) > Len(d)
       /\ \A i \in 1..Len(d) : f[i] = d[i]
       /\ f[Len(d) + 1] = "/"

\* the directories of the packages named n, as strings relative to the root
DirsOf(n) ==
    { PathStr(Parent(members[i].path)) : i \in { j \in 1..Len(members) : members[j].name = n } }

\* the directories of all the discovered packages
AllDirs == UNION { DirsOf(members[i].name) : i \in 1..Len(members) }

\* C11: a file is attributed to package P only if its path is P's directory
\* or P's directory followed by "/" and more, so that a file under a sibling
\* whose name merely starts with P's name is not P's; a file at or under no
\* package directory has no owner, and the turn of main's loop for it
\* completes with nothing added to the directly changed set.
C11_OwnedOnlyUnderDirectory ==
    /\ (pc \in { "done", "collected" } /\ owner # None) =>
          \E d \in DirsOf(owner) : IsAtOrUnder(filepath, d)
    /\ (pc \in { "done", "collected" } /\ \A d \in AllDirs : ~IsAtOrUnder(filepath, d)) =>
          owner = None
    /\ (pc = "collected" /\ owner = None) => directly_changed = {}
    /\ pc = "collected" => None \notin directly_changed

\* libs/a is a package, libs/ab is not: libs/ab/f has no owner and the loop
\* turn for it has completed with nothing collected
C11_Witness ==
    /\ pc = "collected"
    /\ filepath = PathStr(<< libs, nab, << "f" >> >>)
    /\ PathStr(<< libs, na >>) \in AllDirs
    /\ PathStr(<< libs, nab >>) \notin AllDirs
    /\ owner = None
    /\ directly_changed = {}


-----------------------------------------------------------------------------
(* C12: the loops of expand_dependents and check_no_cycles terminate        *)

\* how many dependency entries of n name a discovered package
OutDegree(n) ==
    Cardinality({ i \in 1..Len(manifests[ManifestOf(n)].deps) :
                    parse_dep_name(manifests[ManifestOf(n)].deps[i]) \in Discovered })

\* the work the scan can still spend on the packages of S, counted as a set
\* of tokens: one call, one return and one step per dependency entry for each
UnvisitedWork(S) == UNION { { n } \X (1..(OutDegree(n) + 2)) : n \in S }

\* tokens for the dependency entries the open calls have not looked at yet,
\* and one for the return of each open call
OpenWork(fs) ==
    UNION { { k } \X (1..(OutDegree(fs[k].node) + 2 - fs[k].i)) : k \in 1..Len(fs) }

\* a bound on the turns the while loop of expand_dependents has left
ExpandVariant == 2 * Cardinality(Discovered \ result) + Len(queue)

\* a bound on the steps the scan of check_no_cycles has left when its loop
\* over the members is at r, its open calls are fs and it has visited seen
DfsVariant(r, fs, seen) ==
    (Len(members) + 1 - r) + Cardinality(OpenWork(fs))
        + Cardinality(UnvisitedWork(Discovered \ seen))

\* a turn of the while loop: the queue loses its last entry and gains, once
\* each, exactly the packages the turn adds to result
EnqueuedOnceWhenAdded ==
    /\ result \subseteq result'
    /\ Len(queue') = Len(queue) - 1 + Cardinality(result' \ result)
    /\ \A i \in 1..(Len(queue) - 1) : queue'[i] = queue[i]
    /\ \A i \in Len(queue)..Len(queue') : queue'[i] \in result' \ result
    /\ \A i \in Len(queue)..Len(queue') : \A j \in Len(queue)..Len(queue') :
          queue'[i] = queue'[j] => i = j

\* a step of the scan: visited never shrinks, and a call that is expanded is
\* for a package that was not visited and now is
ExpandedOnlyWhenUnvisited ==
    /\ visited \subseteq visited'
    /\ Len(frames') > Len(frames) =>
          /\ frames'[Len(frames')].node \notin visited
          /\ frames'[Len(frames')].node \in visited'

\* C12: on every workspace graph, cycles, self-dependencies and duplicated
\* declarations included, both loops terminate: every turn of the work-queue
\* loop and every step of the depth-first scan lowers a bound that is never
\* negative (the manifests and the members do not change while they run); a package is enqueued only when it is added to result, once, and
\* is never removed from result; the scan expands a package only when it is
\* unvisited and marks it visited for good.
C12_LoopsTerminate ==
    [][ /\ (pc = "expand" /\ pc' = "expand") =>
              /\ ExpandVariant' < ExpandVariant
              /\ ExpandVariant' >= 0
              /\ EnqueuedOnceWhenAdded
        /\ (pc \in { "roots", "dfs" } /\ pc' \in { "roots", "dfs" }) =>
              /\ DfsVariant(root', frames', visited') < DfsVariant(root, frames, visited)
              /\ root' <= Len(members) + 1
              /\ ExpandedOnlyWhenUnvisited ]_vars

\* the scan has finished on a workspace where a depends on itself, twice
\* over, and is in a cycle with b
C12_Witness ==
    /\ pc = "done" /\ root = Len(members) + 1 /\ frames = << >>
    /\ { na, nb } \subseteq Discovered
    /\ DeclCount(na, na) = 2
    /\ Declares(na, nb) /\ Declares(nb, na)
    /\ visited = Discovered


-----------------------------------------------------------------------------
(* C13: check_no_cycles is sound and detects that a cycle exists           *)

\* chain closes on itself and each of its steps is a declared dependency
\* between discovered packages
IsDependencyCycle(chain) ==
    /\ Len(chain) >= 2
    /\ chain[1] = chain[Len(chain)]
    /\ \A i \in 1..(Len(chain) - 1) :
          chain[i] \in Discovered /\ Declares(chain[i], chain[i + 1])

\* C13: every chain check_no_cycles reports starts and ends at the same
\* package and steps only along declared workspace dependencies, and the
\* returned list is not empty when the workspace graph has a cycle, a package
\* depending on itself included.
C13_SoundAndDetects ==
    /\ \A k \in 1..Len(cycles) : IsDependencyCycle(cycles[k])
    /\ (pc = "done" /\ HasCycle) => cycles # << >>

\* c depends on a, a and b depend on each other and b on itself: the scan,
\* which starts at c, returns chains that start at a and at b, not at c
C13_Witness ==
    /\ pc = "done"
    /\ Discovered = Names
    /\ Declares(nc, na) /\ Declares(na, nb) /\ Declares(nb, na) /\ Declares(nb, nb)
    /\ \E k \in 1..Len(cycles) : cycles[k] = << na, nb, na >>
    /\ \E k \in 1..Len(cycles) : cycles[k] = << nb, nb >>

=============================================================================
